---- MODULE Spec2Model ----
(***************************************************************************)
(* schedsim sweep harness (get_data.py): display(mus) runs process(mu) for *)
(* every service rate, process(mu) invokes the external simulator once per *)
(* arrival rate, parses the metric out of the captured output and builds   *)
(* the (load, performance) curve that display plots and shows.             *)
(*                                                                         *)
(* Text is modelled as a sequence of one-character strings.  Rates are     *)
(* exact rationals: an arrival rate or service rate is an integer number   *)
(* of thousandths, a load l/mu is the pair <<l, mu>>, and a parsed metric  *)
(* is an integer number of thousandths.                                    *)
(***************************************************************************)
EXTENDS Integers, Sequences, FiniteSets, TLC

\* ------------------------------------------------------------------ bounds

\* Number of arrival rates per sweep in the operational model; the source
\* sweeps range(100), see SweepCount for the full-length specification.
Count == 3
\* Longest list of service rates handed to display.
MaxMus == 2

\* range(100) of the list comprehension building lambdas.
SweepCount == 100
\* Step of the arrival-rate grid, 0.001, in thousandths.
Step == 1
\* Fixed simulator flags of the command line.
Topo == 0
GenType == 3
ProcType == 0

\* ----------------------------------------------------- text: str, split, float

BS == "\\"
TAB == "\t"
NL == "\n"
SQ == "'"
DQ == "\""

Has(s, c) == \E k \in 1..Len(s) : s[k] = c

\* The quote character repr(bytes) encloses the text in.
Quote(raw) == IF Has(raw, SQ) /\ ~Has(raw, DQ) THEN DQ ELSE SQ

\* repr(bytes) of one byte inside quotes q.
Escape(c, q) ==
    IF c = TAB THEN <<BS, "t">>
    ELSE IF c = NL THEN <<BS, "n">>
    ELSE IF c = BS THEN <<BS, BS>>
    ELSE IF c = q /\ q = SQ THEN <<BS, SQ>>
    ELSE <<c>>

RECURSIVE EscapeAll(_, _)
EscapeAll(raw, q) ==
    IF raw = <<>> THEN <<>>
    ELSE Escape(Head(raw), q) \o EscapeAll(Tail(raw), q)

\* str(b): the repr of the bytes object check_output returns, b'...'.
Str(raw) == <<"b", Quote(raw)>> \o EscapeAll(raw, Quote(raw)) \o <<Quote(raw)>>

\* The separator "\\t" of output.split: a backslash followed by the letter t.
Sep == <<BS, "t">>

StartsWith(s, p) == Len(s) >= Len(p) /\ SubSeq(s, 1, Len(p)) = p

\* s.split(sep): left to right, non-overlapping; cur is the field being read.
RECURSIVE SplitFrom(_, _, _)
SplitFrom(s, sep, cur) ==
    IF s = <<>> THEN <<cur>>
    ELSE IF StartsWith(s, sep)
         THEN <<cur>> \o SplitFrom(SubSeq(s, Len(sep) + 1, Len(s)), sep, <<>>)
         ELSE SplitFrom(Tail(s), sep, Append(cur, Head(s)))

Split(s, sep) == SplitFrom(s, sep, <<>>)

Digits == {"0", "1", "2", "3", "4", "5", "6", "7", "8", "9"}
DigitVal(c) ==
    CASE c = "0" -> 0 [] c = "1" -> 1 [] c = "2" -> 2 [] c = "3" -> 3
      [] c = "4" -> 4 [] c = "5" -> 5 [] c = "6" -> 6 [] c = "7" -> 7
      [] c = "8" -> 8 [] c = "9" -> 9

RECURSIVE LStrip(_)
LStrip(s) == IF s # <<>> /\ Head(s) = " " THEN LStrip(Tail(s)) ELSE s
RECURSIVE RStrip(_)
RStrip(s) ==
    IF s # <<>> /\ s[Len(s)] = " " THEN RStrip(SubSeq(s, 1, Len(s) - 1)) ELSE s
Strip(s) == RStrip(LStrip(s))

AllDigits(s) == \A k \in 1..Len(s) : s[k] \in Digits

RECURSIVE IntOf(_)
IntOf(s) == IF s = <<>> THEN 0 ELSE 10 * IntOf(SubSeq(s, 1, Len(s) - 1)) + DigitVal(s[Len(s)])

DotAt(s) == IF Has(s, ".") THEN CHOOSE k \in 1..Len(s) : s[k] = "." /\ \A j \in 1..(k - 1) : s[j] # "." ELSE 0

\* Unsigned decimal literal: digits, optionally a point and up to three more
\* digits, at least one digit overall.
IsDecimal(s) ==
    LET d == DotAt(s) IN
    IF d = 0 THEN s # <<>> /\ AllDigits(s)
    ELSE /\ AllDigits(SubSeq(s, 1, d - 1))
         /\ AllDigits(SubSeq(s, d + 1, Len(s)))
         /\ Len(s) > 1
         /\ Len(s) - d <= 3

Pow10(k) == CASE k = 0 -> 1 [] k = 1 -> 10 [] k = 2 -> 100 [] k = 3 -> 1000

DecimalVal(s) ==
    LET d == DotAt(s) IN
    IF d = 0 THEN 1000 * IntOf(s)
    ELSE 1000 * IntOf(SubSeq(s, 1, d - 1))
         + IntOf(SubSeq(s, d + 1, Len(s))) * Pow10(3 - (Len(s) - d))

ValueError == "ValueError"
IndexError == "IndexError"
ZeroDivisionError == "ZeroDivisionError"
CalledProcessError == "CalledProcessError"

\* float(s): surrounding blanks stripped, an optional sign, a decimal literal.
Unsigned(s) ==
    LET t == Strip(s)
    IN IF t # <<>> /\ Head(t) \in {"-", "+"} THEN Tail(t) ELSE t

\* Whether float(s) returns; it raises ValueError otherwise.
IsFloat(s) == IsDecimal(Unsigned(s))

\* The value float(s) returns, in thousandths.
Float(s) ==
    IF Head(Strip(s)) = "-" THEN 0 - DecimalVal(Unsigned(s)) ELSE DecimalVal(Unsigned(s))

\* fields[-2]: Python's negative index; it raises IndexError below two fields.
SecondToLast(fields) == fields[Len(fields) - 1]

\* The exception float(output.split("\\t")[-2]) raises, "" when it returns.
ParseRaise(text) ==
    LET fields == Split(text, Sep)
    IN IF Len(fields) < 2 THEN IndexError
       ELSE IF ~IsFloat(SecondToLast(fields)) THEN ValueError
       ELSE ""

\* float(output.split("\\t")[-2]) for output = str(bytes), where it returns.
ParseMetric(text) == Float(SecondToLast(Split(text, Sep)))

\* ------------------------------------------------------------ environment

\* Texts the simulator may write to standard output.
OutA == <<"a", TAB, "1", ".", "5", TAB, "z", NL>>
OutB == <<SQ, TAB, "b", TAB, "c", TAB, " ", "2", TAB, "e">>
OutTwoFields == <<"1", ".", "5", TAB, "z">>
OutTwoFieldsBad == <<"x", TAB, "z">>
OutNonNumeric == <<"x", TAB, "y", TAB, "a", "b", "c", TAB, "z">>
OutOneField == <<"a", "b", "c">>
OutEmpty == <<>>
OutBackslashT == <<"a", TAB, "2", TAB, "z", BS, "t", "w">>

Outputs ==
    {OutA, OutB, OutTwoFields, OutTwoFieldsBad, OutNonNumeric, OutOneField,
     OutEmpty, OutBackslashT}

\* str(bytes) of every text of the simulator, and the outcome of the parse
\* of each, evaluated once.
Texts == {Str(o) : o \in Outputs}
ParseRaiseOf == [t \in Texts |-> ParseRaise(t)]
ParseMetricOf == [t \in {u \in Texts : ParseRaise(u) = ""} |-> ParseMetric(t)]

\* Service rates in thousandths: 0.1 and 0.2, and the degenerate 0.
ServiceRates == {0, 100, 200}
\* Service rates of the full-length sweep: -0.1 as well.
SweepRates == {-100, 0, 100, 200}
\* Texts of the simulator of the full-length sweep.
SweepOutputs == Outputs \ {OutB}

Backends == {"interactive", "noninteractive"}

RECURSIVE SeqsUpTo(_, _)
SeqsUpTo(S, k) ==
    IF k = 0 THEN {<<>>}
    ELSE LET shorter == SeqsUpTo(S, k - 1)
         IN shorter \cup {Append(q, e) : q \in shorter, e \in S}

\* ------------------------------------------------------------------ state

VARIABLES
    mus,          \* argument of display
    backend,      \* matplotlib backend of the run
    count,        \* length of the arrival-rate grid of a sweep
    sim,          \* texts the simulator binary of the run can print
    pc,           \* position of the single thread of control
    m,            \* index in mus of the current mu (0 before the first)
    i,            \* index in lambdas of the current l (0 before the first)
    load,         \* process: load
    performance,  \* process: performance
    stdout,       \* bytes captured from the last simulator run
    output,       \* process: output = str(bytes)
    running,      \* simulator processes in flight
    calls,        \* history of the command lines issued, with their outcome
    plotted,      \* history of plt.plot calls
    err           \* exception that ended the run, "" while there is none

vars == <<mus, backend, count, sim, pc, m, i, load, performance, stdout,
          output, running, calls, plotted, err>>

\* Faulty variant: the grid built from i*0.001, starting at 0.
lambdasFromZero(n) == [k \in 1..n |-> (k - 1) * Step]

\* lambdas = [(i + 1)*0.001 for i in range(n)]
lambdas(n) == [k \in 1..n |-> k * Step]

mu == mus[m]
l == lambdas(count)[i]

\* The f-string command line handed to the shell.
Command(mu_, l_) ==
    [topo |-> Topo, mu |-> mu_, lambda |-> l_, genType |-> GenType, procType |-> ProcType]

\* l/mu as an exact fraction.
Div(a, b) == <<a, b>>

\* float(i) for i already a float.
FloatOfFloat(v) == v

Start(ms, b, n, outs) ==
    /\ mus = ms
    /\ backend = b
    /\ count = n
    /\ sim = outs
    /\ pc = "for_mu"
    /\ m = 0
    /\ i = 0
    /\ load = <<>>
    /\ performance = <<>>
    /\ stdout = <<>>
    /\ output = <<>>
    /\ running = 0
    /\ calls = <<>>
    /\ plotted = <<>>
    /\ err = ""

Init ==
    \E ms \in SeqsUpTo(ServiceRates, MaxMus), b \in Backends :
        Start(ms, b, Count, Outputs)

\* One sweep of the source's full length, range(100).
SweepInit ==
    \E r \in SweepRates, b \in Backends :
        Start(<<r>>, b, SweepCount, SweepOutputs)

\* The calls of the sweep of the j-th service rate, in the order issued.
CallsOf(j) == SelectSeq(calls, LAMBDA c : c.sweep = j)

\* -------------------------------------------------------------- display

\* Faulty variant: load and performance shared by the sweeps, never emptied.
ForMuKeepsLists ==
    /\ pc = "for_mu"
    /\ m < Len(mus)
    /\ m' = m + 1
    /\ i' = 0
    /\ pc' = "for_l"
    /\ UNCHANGED <<mus, backend, count, sim, load, performance, stdout, output, running,
                   calls, plotted, err>>

\* for mu in mus: the next mu, and the entry of process(mu).
ForMu ==
    /\ pc = "for_mu"
    /\ m < Len(mus)
    /\ m' = m + 1
    /\ i' = 0
    /\ load' = <<>>
    /\ performance' = <<>>
    /\ pc' = "for_l"
    /\ UNCHANGED <<mus, backend, count, sim, stdout, output, running, calls, plotted, err>>

\* for mu in mus is exhausted: display returns and the script ends.
DisplayReturns ==
    /\ pc = "for_mu"
    /\ m = Len(mus)
    /\ pc' = "done"
    /\ UNCHANGED <<mus, backend, count, sim, m, i, load, performance, stdout, output,
                   running, calls, plotted, err>>

\* ---------------------------------------------------------------- process

\* Faulty variant: the simulator is spawned and the loop goes on without waiting.
CheckOutputNoWait ==
    /\ pc = "for_l"
    /\ i < count
    /\ i' = i + 1
    /\ running' = running + 1
    /\ calls' = Append(calls, [sweep |-> m, cmd |-> [topo |-> Topo, mu |-> mus[m],
                                                    lambda |-> (i + 1) * Step,
                                                    genType |-> GenType,
                                                    procType |-> ProcType],
                               status |-> "running", stdout |-> <<>>])
    /\ pc' = "for_l"
    /\ UNCHANGED <<mus, backend, count, sim, m, load, performance, stdout, output,
                   plotted, err>>

\* for l in lambdas: the next l, and check_output spawning the simulator.
CheckOutput ==
    /\ pc = "for_l"
    /\ i < count
    /\ i' = i + 1
    /\ running' = running + 1
    /\ calls' = Append(calls, [sweep |-> m, cmd |-> Command(mu, lambdas(count)[i + 1]),
                               status |-> "running", stdout |-> <<>>])
    /\ pc' = "check_output"
    /\ UNCHANGED <<mus, backend, count, sim, m, load, performance, stdout, output,
                   plotted, err>>

\* The simulator exits with status 0: check_output returns its standard output.
SimulatorExits ==
    /\ pc = "check_output"
    /\ \E o \in sim :
        /\ stdout' = o
        /\ output' = Str(o)
        /\ calls' = [calls EXCEPT ![Len(calls)].status = "exited", ![Len(calls)].stdout = o]
    /\ running' = running - 1
    /\ pc' = "append_load"
    /\ UNCHANGED <<mus, backend, count, sim, m, i, load, performance, plotted, err>>

\* Faulty variant: a failed invocation ends the loop and the samples collected so
\* far are returned.
SimulatorFailsReturnsPartial ==
    /\ pc = "check_output"
    /\ calls' = [calls EXCEPT ![Len(calls)].status = "failed"]
    /\ running' = running - 1
    /\ pc' = "plot"
    /\ UNCHANGED <<mus, backend, count, sim, m, i, load, performance, stdout, output,
                   plotted, err>>

\* Faulty variant: a failed invocation is issued again.
SimulatorFailsRetries ==
    /\ pc = "check_output"
    /\ calls' = [calls EXCEPT ![Len(calls)].status = "failed"]
    /\ running' = running - 1
    /\ i' = i - 1
    /\ pc' = "for_l"
    /\ UNCHANGED <<mus, backend, count, sim, m, load, performance, stdout, output,
                   plotted, err>>

\* The simulator cannot be started or exits nonzero: check_output raises.
SimulatorFails ==
    /\ pc = "check_output"
    /\ calls' = [calls EXCEPT ![Len(calls)].status = "failed"]
    /\ running' = running - 1
    /\ err' = CalledProcessError
    /\ pc' = "raised"
    /\ UNCHANGED <<mus, backend, count, sim, m, i, load, performance, stdout, output,
                   plotted>>

\* load.append(l/mu)
AppendLoad ==
    /\ pc = "append_load"
    /\ mu # 0
    /\ load' = Append(load, Div(l, mu))
    /\ pc' = "append_performance"
    /\ UNCHANGED <<mus, backend, count, sim, m, i, performance, stdout, output, running,
                   calls, plotted, err>>

\* l/mu with mu = 0
DivisionRaises ==
    /\ pc = "append_load"
    /\ mu = 0
    /\ err' = ZeroDivisionError
    /\ pc' = "raised"
    /\ UNCHANGED <<mus, backend, count, sim, m, i, load, performance, stdout, output,
                   running, calls, plotted>>

\* Faulty variant: the metric is put in front of the list, performance.insert(0, ...).
AppendPerformanceInFront ==
    /\ pc = "append_performance"
    /\ ParseRaiseOf[output] = ""
    /\ performance' = <<ParseMetricOf[output]>> \o performance
    /\ calls' = [calls EXCEPT ![Len(calls)].status = "parsed"]
    /\ pc' = "for_l"
    /\ UNCHANGED <<mus, backend, count, sim, m, i, load, stdout, output, running,
                   plotted, err>>

\* performance.append(float(output.split("\\t")[-2]))
AppendPerformance ==
    /\ pc = "append_performance"
    /\ ParseRaiseOf[output] = ""
    /\ performance' = Append(performance, ParseMetricOf[output])
    /\ calls' = [calls EXCEPT ![Len(calls)].status = "parsed"]
    /\ pc' = "for_l"
    /\ UNCHANGED <<mus, backend, count, sim, m, i, load, stdout, output, running,
                   plotted, err>>

\* Faulty variant: display catches the exception and goes on with the next mu.
ParseRaisesNextMu ==
    /\ pc = "append_performance"
    /\ ParseRaiseOf[output] # ""
    /\ err' = ParseRaiseOf[output]
    /\ pc' = "for_mu"
    /\ UNCHANGED <<mus, backend, count, sim, m, i, load, performance, stdout, output,
                   running, calls, plotted>>

\* The index [-2] or float raises.
ParseRaises ==
    /\ pc = "append_performance"
    /\ ParseRaiseOf[output] # ""
    /\ err' = ParseRaiseOf[output]
    /\ pc' = "raised"
    /\ UNCHANGED <<mus, backend, count, sim, m, i, load, performance, stdout, output,
                   running, calls, plotted>>

\* for l in lambdas is exhausted: the float conversion and return load, performance.
Return ==
    /\ pc = "for_l"
    /\ i = count
    /\ performance' = [k \in 1..Len(performance) |-> FloatOfFloat(performance[k])]
    /\ pc' = "plot"
    /\ UNCHANGED <<mus, backend, count, sim, m, i, load, stdout, output, running, calls,
                   plotted, err>>

\* -------------------------------------------------------------- plotting

\* xpoints, ypoints = np.array(load), np.array(performance); plt.plot(xpoints, ypoints)
Plot ==
    /\ pc = "plot"
    /\ plotted' = Append(plotted, [sweep |-> m, xpoints |-> load, ypoints |-> performance])
    /\ pc' = "show"
    /\ UNCHANGED <<mus, backend, count, sim, m, i, load, performance, stdout, output,
                   running, calls, err>>

\* plt.show() under a backend without a window: returns at once.
ShowReturns ==
    /\ pc = "show"
    /\ backend = "noninteractive"
    /\ pc' = "for_mu"
    /\ UNCHANGED <<mus, backend, count, sim, m, i, load, performance, stdout, output,
                   running, calls, plotted, err>>

\* plt.show() under a windowing backend: enters the event loop and stays
\* there while the figure window is open.
ShowBlocks ==
    /\ pc = "show"
    /\ backend = "interactive"
    /\ pc' = "showing"
    /\ UNCHANGED <<mus, backend, count, sim, m, i, load, performance, stdout, output,
                   running, calls, plotted, err>>

\* The person at the screen closes the figure window: plt.show() returns.
CloseWindow ==
    /\ pc = "showing"
    /\ pc' = "for_mu"
    /\ UNCHANGED <<mus, backend, count, sim, m, i, load, performance, stdout, output,
                   running, calls, plotted, err>>

Next ==
    \/ ForMu
    \/ DisplayReturns
    \/ CheckOutput
    \/ SimulatorExits
    \/ SimulatorFails
    \/ AppendLoad
    \/ DivisionRaises
    \/ AppendPerformance
    \/ ParseRaises
    \/ Return
    \/ Plot
    \/ ShowReturns
    \/ ShowBlocks
    \/ CloseWindow

Spec == Init /\ [][Next]_vars

SweepSpec == SweepInit /\ [][Next]_vars

\* Every step of the script and of the simulator; closing the figure window
\* is left to the person at the screen.
Program ==
    \/ ForMu
    \/ DisplayReturns
    \/ CheckOutput
    \/ SimulatorExits
    \/ SimulatorFails
    \/ AppendLoad
    \/ DivisionRaises
    \/ AppendPerformance
    \/ ParseRaises
    \/ Return
    \/ Plot
    \/ ShowReturns
    \/ ShowBlocks

\* The interpreter keeps running the script and the simulator terminates;
\* nothing makes anybody close a window.
FairSpec == Spec /\ WF_vars(Program)

\* ------------------------------------------------------------ properties

\* The fields of the simulator's text, delimited by the tab character.
TabFields(raw) == Split(raw, <<TAB>>)

\* The text has n >= 2 tab-delimited fields and a numeric second-to-last one.
HasMetric(raw) ==
    /\ Len(TabFields(raw)) >= 2
    /\ IsFloat(SecondToLast(TabFields(raw)))

\* The value of the second-to-last tab-delimited field.
MetricOf(raw) == Float(SecondToLast(TabFields(raw)))

\* What the script's parse returns for each simulator text it accepts.
CodeMetric ==
    [o \in {u \in Outputs : ParseRaise(Str(u)) = ""} |-> ParseMetric(Str(o))]

\* The parse of the captured text of the current invocation has been run.
Parsed ==
    \/ pc = "for_l" /\ i > 0
    \/ pc = "raised" /\ err \in {IndexError, ValueError}

\* p/q < r/s for fractions with nonzero denominators.
Less(x, y) == (x[1] * y[2] - y[1] * x[2]) * (x[2] * y[2]) < 0

\* C1: a simulator invocation that fails is the last one of the run: the
\* sweep stops there with CalledProcessError, process returns nothing and
\* no curve of that service rate is ever plotted.
C1_FailFast ==
    \A k \in 1..Len(calls) :
        calls[k].status = "failed" =>
            /\ k = Len(calls)
            /\ pc = "raised"
            /\ err = CalledProcessError
            /\ running = 0
            /\ \A j \in 1..Len(plotted) : plotted[j].sweep # calls[k].sweep

\* C1 witness: the 37th invocation of 100 fails after 36 samples were collected.
C1_Witness ==
    /\ count = SweepCount
    /\ Len(calls) = 37
    /\ calls[37].status = "failed"
    /\ Len(performance) = 36
    /\ plotted = <<>>

\* C2: when process returns, load and performance both hold one sample per
\* arrival rate of the grid, the k-th of them the load of the k-th arrival
\* rate and the metric parsed from the k-th invocation's output.
C2_FullCurve ==
    pc = "plot" =>
        LET own == CallsOf(m) IN
        /\ Len(load) = count
        /\ Len(performance) = count
        /\ Len(own) = count
        /\ \A k \in 1..count :
            /\ own[k].cmd.lambda = k * Step
            /\ own[k].status = "parsed"
            /\ load[k] = <<k * Step, mus[m]>>
            /\ performance[k] = CodeMetric[own[k].stdout]

\* C2 witness: a returned curve whose samples differ, from different outputs.
C2_Witness ==
    /\ pc = "plot"
    /\ Len(performance) = count
    /\ performance[1] # performance[2]
    /\ performance[2] = MetricOf(OutB)

\* C3: whenever the captured text has at least two tab-delimited fields and a
\* numeric second-to-last field, the parse returns the value of that field.
C3_SecondToLastField ==
    (Parsed /\ HasMetric(stdout)) =>
        /\ err = ""
        /\ performance # <<>>
        /\ performance[Len(performance)] = MetricOf(stdout)

\* C4: the parse fails exactly when the captured text has fewer than two
\* tab-delimited fields or a second-to-last field that is not numeric, and a
\* failed parse records no sample.
C4_ParseErrorExactly ==
    Parsed =>
        /\ (err # "") <=> ~HasMetric(stdout)
        /\ err # "" => Len(performance) = i - 1

\* C5: the k-th invocation of every sweep gets the arrival rate k*step, so
\* the arrival rates increase strictly; for a positive service rate the
\* recorded loads are arrival/service and increase strictly; for mu = 0.1 and
\* the full grid the k-th load is k/100, from 0.01 up to 1.0.
C5_GridAndLoad ==
    /\ \A j \in 1..m :
        LET own == CallsOf(j) IN
        \A k \in 1..Len(own) :
            /\ own[k].cmd.lambda = k * Step
            /\ k > 1 => own[k - 1].cmd.lambda < own[k].cmd.lambda
    /\ \A k \in 1..Len(load) :
        /\ load[k][1] = k * Step
        /\ load[k][2] = mus[m]
        /\ (mus[m] > 0 /\ k > 1) => Less(load[k - 1], load[k])
        /\ mus[m] = 100 => load[k][1] * 100 = k * load[k][2]
    /\ (pc = "plot" /\ mus[m] = 100 /\ count = SweepCount) =>
        /\ load[1] = <<1, 100>>
        /\ load[SweepCount] = <<100, 100>>

\* C5 witness: the full curve of mu = 0.1, its last load 0.1/0.1.
C5_Witness ==
    /\ pc = "plot"
    /\ mus[m] = 100
    /\ Len(load) = SweepCount
    /\ load[Len(load)] = <<100, 100>>

\* C6: at most one simulator process is in flight, and only while the script
\* waits in check_output; every earlier invocation has exited before the
\* latest was started, and every earlier sweep was finished and plotted
\* before an invocation of the current one.
C6_Sequential ==
    /\ running \in {0, 1}
    /\ running = 1 <=> pc = "check_output"
    /\ \A k \in 1..Len(calls) :
        /\ calls[k].status = "running" => (k = Len(calls) /\ running = 1)
        /\ k > 1 => calls[k - 1].sweep <= calls[k].sweep
        /\ calls[k].sweep <= m
        /\ Len(plotted) >= calls[k].sweep - 1
    /\ \A k \in 1..Len(calls) : calls[k].sweep < m => calls[k].status = "parsed"

\* C6 witness: an invocation of the second sweep in flight, after the first sweep.
C6_Witness ==
    /\ m = 2
    /\ running = 1
    /\ Len(calls) > count
    /\ calls[Len(calls)].status = "running"

\* C7: once the curve of a service rate is presented, the sweep of the next
\* service rate eventually begins.
C7_ShowDoesNotBlock ==
    \A j \in 1..MaxMus :
        (pc = "show" /\ m = j /\ j < Len(mus)) ~> (m = j + 1)

\* C8 as stated: in a finished run of display in which every invocation
\* succeeded, one curve per service rate is plotted, in the order of mus.
\* Read in the claim's favour: the service rates are positive and no
\* captured text is one on which the script's parse departs from the
\* second-to-last tab-delimited field.
C8_OnePerRateIfInvocationsSucceed ==
    ( /\ pc \in {"done", "raised"}
      /\ \A k \in 1..Len(mus) : mus[k] > 0
      /\ \A k \in 1..Len(calls) :
          /\ calls[k].status \in {"exited", "parsed"}
          /\ HasMetric(calls[k].stdout) <=> calls[k].stdout \in DOMAIN CodeMetric )
    => /\ Len(plotted) = Len(mus)
       /\ \A j \in 1..Len(plotted) : plotted[j].sweep = j

\* C8 amended: the curves plotted are one per service rate in the order of
\* mus, each built from the loads and the parsed outputs of its own sweep's
\* invocations and never changed afterwards; a run of display that ends
\* without an error has plotted exactly len(mus) of them.
C8_OneCurvePerRate ==
    /\ \A j \in 1..Len(plotted) :
        LET own == CallsOf(j) IN
        /\ plotted[j].sweep = j
        /\ Len(own) = count
        /\ plotted[j].xpoints = [k \in 1..count |-> <<k * Step, mus[j]>>]
        /\ plotted[j].ypoints = [k \in 1..count |-> CodeMetric[own[k].stdout]]
        /\ \A k \in 1..count : own[k].cmd.mu = mus[j]
    /\ pc = "done" => Len(plotted) = Len(mus)

\* C8 witness: a finished run with two service rates and two different curves.
C8_Witness ==
    /\ pc = "done"
    /\ Len(mus) = 2
    /\ Len(plotted) = 2
    /\ plotted[1].ypoints # plotted[2].ypoints
    /\ plotted[1].xpoints # plotted[2].xpoints

\* C9: within a sweep the k-th command line carries the k-th arrival rate,
\* so each rate is issued at most once and in increasing order, with the
\* sweep's mu and topo=0, genType=3, procType=0; a failed invocation is the
\* last command line of the run; the samples recorded are as many as the
\* invocations that succeeded and parsed.
C9_OncePerGridPoint ==
    /\ \A j \in 1..m :
        LET own == CallsOf(j) IN
        /\ Len(own) <= count
        /\ \A k \in 1..Len(own) :
            own[k].cmd = [topo |-> 0, mu |-> mus[j], lambda |-> k * Step,
                          genType |-> 3, procType |-> 0]
    /\ \A k \in 1..Len(calls) : calls[k].status = "failed" => k = Len(calls)
    /\ Len(performance) =
        Cardinality({k \in 1..Len(calls) : calls[k].sweep = m /\ calls[k].status = "parsed"})

\* C9 witness: an invocation failed after samples were recorded and the run is over.
C9_Witness ==
    /\ pc = "raised"
    /\ err = CalledProcessError
    /\ Len(performance) = 2
    /\ Len(CallsOf(m)) = 3

\* C10: once an invocation or a parse has failed, the failing invocation is
\* the last command line of the run, nothing is plotted for its service rate
\* or a later one, and the curves of the service rates before it stay plotted.
C10_FailureEndsRun ==
    err # "" =>
        /\ pc = "raised"
        /\ calls # <<>>
        /\ calls[Len(calls)].status \in {"failed", "exited"}
        /\ calls[Len(calls)].sweep = m
        /\ \A k \in 1..Len(calls) : calls[k].sweep <= m
        /\ Len(plotted) = m - 1
        /\ \A j \in 1..Len(plotted) :
            /\ plotted[j].sweep = j
            /\ Len(plotted[j].ypoints) = count

\* C10 witness: the parse fails in the second sweep, the first curve plotted.
C10_Witness ==
    /\ pc = "raised"
    /\ err \in {IndexError, ValueError}
    /\ m = 2
    /\ Len(plotted) = 1
    /\ Len(plotted[1].ypoints) = count
====
